---- MODULE Spec2Model ----
(***************************************************************************)
(* ACES price scraper (src/scraper.py): discovery of forecast files on the *)
(* portal listing, the acquisition cascade (direct click, JS trigger,      *)
(* in-browser fetch), normalisation of the CSV payload and the two store   *)
(* writes (forecast table upsert, processed_files insert), over several    *)
(* runs of main() sharing the store and the /tmp download directory.       *)
(* parse_filename, process_csv_content and scan_files are also specified   *)
(* on their own (ParseSpec, NormalizeSpec, ScanSpec); LiveSpec is main     *)
(* under weak fairness of its steps.                                       *)
(***************************************************************************)
EXTENDS Integers, Sequences, FiniteSets, TLC

(* ------------------------------ bounds --------------------------------- *)
\* runs of main() in one behaviour
MaxRuns == 2
\* rows of the portal listing scanned, over all runs
MaxRows == 2
\* rows of a listing given to scan_files on its own
MaxListing == 3

(* --------------------------- filenames --------------------------------- *)
\* A text is modelled by its parts around the filename pattern:
\*   lead ++ tag ++ "_" ++ cls ++ "_price_forecast_" ++ digits ++ ".csv" ++ trail
Text(lead, tag, cls, digits, trail) ==
    [lead |-> lead, tag |-> tag, cls |-> cls, digits |-> digits, trail |-> trail]

LocationTag == "NIPS.WVPA"

\* the character classes of the two regular expressions (lines 92 and 295)
PatternCore(t) ==
    /\ t.tag = LocationTag
    /\ t.cls \in {"da", "rt"}
    /\ Len(t.digits) = 14

\* the text the pattern's first group captures: the conforming core alone
Core(t) == Text("", t.tag, t.cls, t.digits, "")

\* decimal value of the first n digits of a sequence
RECURSIVE DigitsValue(_, _)
DigitsValue(ds, n) ==
    IF n = 0 THEN 0 ELSE 10 * DigitsValue(ds, n - 1) + ds[n]

\* int(...) of a digit string
DigitsToInt(ds) == DigitsValue(ds, Len(ds))

IsLeap(y) == (y % 4 = 0 /\ y % 100 # 0) \/ y % 400 = 0

DaysInMonth(y, m) ==
    IF m = 2 THEN (IF IsLeap(y) THEN 29 ELSE 28)
    ELSE IF m \in {4, 6, 9, 11} THEN 30 ELSE 31

\* datetime(y, mo, d, h, mi, s) raises ValueError outside these ranges
ValidDateTime(y, mo, d, h, mi, s) ==
    /\ y \in 1..9999
    /\ mo \in 1..12
    /\ d >= 1 /\ d <= DaysInMonth(y, mo)
    /\ h \in 0..23
    /\ mi \in 0..59
    /\ s \in 0..59

\* int(version_str): a 14-digit number does not fit a 32-bit integer, so the
\* value is kept as the pair (digits 1-8, digits 9-14) of its decimal halves
VersionOf(ds) == <<DigitsToInt(SubSeq(ds, 1, 8)), DigitsToInt(SubSeq(ds, 9, 14))>>

StampOf(ds) ==
    << DigitsToInt(SubSeq(ds, 1, 4)), DigitsToInt(SubSeq(ds, 5, 6)),
       DigitsToInt(SubSeq(ds, 7, 8)), DigitsToInt(SubSeq(ds, 9, 10)),
       DigitsToInt(SubSeq(ds, 11, 12)), DigitsToInt(SubSeq(ds, 13, 14)) >>

NoIdentity == [res |-> "none"]

\* parse_filename: re.match anchors the pattern at the start of the string only
parse_filename(t) ==
    IF t.lead = "" /\ PatternCore(t)
    THEN LET s == StampOf(t.digits) IN
         IF ValidDateTime(s[1], s[2], s[3], s[4], s[5], s[6])
         THEN [res |-> "ok", type |-> t.cls, version |-> VersionOf(t.digits),
               forecast_timestamp |-> s]
         ELSE [res |-> "raise"]
    ELSE NoIdentity

(* ---------------------------- payloads --------------------------------- *)
\* A cell of the parsed frame: a number, an empty cell (NaN) or other text
Num(n) == [t |-> "num", v |-> n]
NaN == [t |-> "nan", v |-> 0]
Str == [t |-> "str", v |-> 0]
Null == [t |-> "null", v |-> 0]

\* One CSV line; date is the tuple of the '-'-separated integer parts
Line(date, he, mw, kw, node) ==
    [date |-> date, he |-> he, mw |-> mw, kw |-> kw, node |-> node]

\* kind: "csv" (read_csv succeeds), "garbage" (read_csv raises), "empty" (b'')
\* cols: the lower-cased column names; size: len(content)
Payload(kind, cols, lines, size) ==
    [kind |-> kind, cols |-> cols, lines |-> lines, size |-> size]

NoContent == Payload("none", {}, <<>>, 0)

\* "if not content": None and b'' are both falsy
Falsy(c) == c.kind = "none" \/ c.size = 0

\* lines 323-351: one row of the frame, or a raise that drops the row
RowRaises(cols, ln) ==
    \/ "date" \notin cols
    \/ "he" \notin cols
    \/ ln.he.t # "num"
    \/ Len(ln.date) < 3
    \/ ~ValidDateTime(ln.date[1], ln.date[2], ln.date[3], ln.he.v - 1, 0, 0)
    \/ ("mw" \in cols /\ ln.mw.t = "str")
    \/ ("mw" \in cols /\ ln.mw.t = "nan" /\ "kw" \in cols /\ ln.kw.t = "str")
    \/ ("mw" \notin cols /\ "kw" \in cols /\ ln.kw.t = "str")

\* a normalizer that prefers kw
PriceOfKwFirst(cols, ln) ==
    IF "kw" \in cols /\ ln.kw.t # "nan" THEN ln.kw
    ELSE IF "mw" \in cols /\ ln.mw.t # "nan" THEN ln.mw
    ELSE Null

PriceOf(cols, ln) ==
    IF "mw" \in cols /\ ln.mw.t # "nan" THEN ln.mw
    ELSE IF "kw" \in cols /\ ln.kw.t # "nan" THEN ln.kw
    ELSE Null

RowOf(cols, ln, file_info) ==
    [ target_timestamp |-> <<ln.date[1], ln.date[2], ln.date[3], ln.he.v - 1>>,
      hour |-> ln.he.v,
      price |-> PriceOf(cols, ln),
      congestion_price |-> Null,
      loss_price |-> Null,
      energy_price |-> Null,
      location |-> IF "node" \in cols THEN ln.node ELSE LocationTag,
      forecast_timestamp |-> file_info.forecast_timestamp,
      version |-> file_info.version,
      filename |-> file_info.filename ]

RECURSIVE ParseLines(_, _, _)
ParseLines(cols, lines, file_info) ==
    IF lines = <<>> THEN <<>>
    ELSE LET rest == ParseLines(cols, Tail(lines), file_info) IN
         IF RowRaises(cols, Head(lines)) THEN rest
         ELSE <<RowOf(cols, Head(lines), file_info)>> \o rest

\* process_csv_content's result; the outer except returns [] for a frame
\* that cannot be read
process_csv_content(content, file_info) ==
    IF content.kind = "csv" THEN ParseLines(content.cols, content.lines, file_info)
    ELSE <<>>

\* whether process_csv_content reaches temp_path.unlink() (line 356)
TempUnlinked(content) == content.kind = "csv"

(* ----------------------------- the store ------------------------------- *)
\* on_conflict='target_timestamp,version,location,hour' (line 422)
Key(r) == <<r.target_timestamp, r.version, r.location, r.hour>>

\* an insert that never looks at the conflict key
UpsertRowAppend(T, r) == Append(T, r)

\* a forecast table is the sequence of its rows, in insertion order
UpsertRow(T, r) ==
    IF \E i \in 1..Len(T) : Key(T[i]) = Key(r)
    THEN [i \in 1..Len(T) |-> IF Key(T[i]) = Key(r) THEN r ELSE T[i]]
    ELSE Append(T, r)

\* a plain insert of the batch
UpsertConcat(T, rows) == T \o rows

RECURSIVE Upsert(_, _)
Upsert(T, rows) ==
    IF rows = <<>> THEN T
    ELSE Upsert(UpsertRow(T, Head(rows)), Tail(rows))

\* line 417: every class other than 'da' goes to the rt table
TableOf(type) == IF type = "da" THEN "da" ELSE "rt"

LedgerFilenames(L) == {rec.filename : rec \in L}

\* the ledger table is keyed by filename: a second insert of a filename is
\* refused by the store
LedgerAccepts(L, fn) == fn \notin LedgerFilenames(L)

\* lines 425-431
SuccessRecord(fn, type, content, rows) ==
    [filename |-> fn, file_type |-> type, file_size_bytes |-> content.size,
     row_count |-> Len(rows), import_status |-> "success"]

\* lines 442-447: file_size_bytes is not given
FailedRecord(f) ==
    [filename |-> f.filename, file_type |-> f.type, file_size_bytes |-> -1,
     row_count |-> 0, import_status |-> "failed"]

(* ---------------------------- discovery -------------------------------- *)
\* line 83: for i in range(5)
ScrollTriggers == 5

\* lines 88-98: the rows whose text holds the pattern, as file dicts
FileDict(t) == [filename |-> Core(t), type |-> t.cls, version |-> t.digits]

RECURSIVE Matches(_)
Matches(listing) ==
    IF listing = <<>> THEN <<>>
    ELSE IF PatternCore(Head(listing))
         THEN <<FileDict(Head(listing))>> \o Matches(Tail(listing))
         ELSE Matches(Tail(listing))

\* a scan without the seen set
UniqueNone(files, seen) == files

\* lines 100-105: first occurrence of each filename, in order
RECURSIVE Unique(_, _)
Unique(files, seen) ==
    IF files = <<>> THEN <<>>
    ELSE IF Head(files).filename \in seen THEN Unique(Tail(files), seen)
         ELSE <<Head(files)>> \o Unique(Tail(files), seen \cup {Head(files).filename})

scan_files(listing) == Unique(Matches(listing), {})

\* line 379
RECURSIVE NewFiles(_, _)
NewFiles(files, done) ==
    IF files = <<>> THEN <<>>
    ELSE IF Head(files).filename \in done THEN NewFiles(Tail(files), done)
         ELSE <<Head(files)>> \o NewFiles(Tail(files), done)

Names(files) == {files[i].filename : i \in 1..Len(files)}

(* ------------------------- the environment ----------------------------- *)
D1 == <<2, 0, 2, 4, 0, 1, 1, 5, 0, 9, 3, 0, 0, 0>>
\* 30 February: the pattern matches, datetime() raises
D3 == <<2, 0, 2, 4, 0, 2, 3, 0, 0, 0, 0, 0, 0, 0>>

\* the texts of the listing's rows
RowTexts ==
    { Text("", LocationTag, "da", D1, " 12 KB"),
      Text("", LocationTag, "rt", D1, ""),
      Text("", LocationTag, "da", D3, ""),
      Text("", "Name", "", <<>>, "") }

RECURSIVE SeqsUpTo(_, _)
SeqsUpTo(S, n) ==
    IF n = 0 THEN {<<>>}
    ELSE LET shorter == SeqsUpTo(S, n - 1) IN
         shorter \cup {Append(q, x) : q \in shorter, x \in S}

Listings == SeqsUpTo(RowTexts, MaxRows)

Day == <<2024, 3, 1>>

\* the contents the portal may deliver
Payloads ==
    { Payload("csv", {"date", "he", "mw"},
              << Line(Day, Num(1), Num(45), NaN, ""),
                 Line(Day, Num(24), Num(50), NaN, "") >>, 60),
      Payload("csv", {"date", "he", "mw", "kw", "node"},
              << Line(Day, Num(1), Num(45), Num(7), "N1"),
                 Line(Day, Num(25), Num(46), Num(8), "N1"),
                 Line(Day, Num(2), NaN, NaN, "N1") >>, 90),
      Payload("garbage", {}, <<>>, 10),
      Payload("empty", {}, <<>>, 0) }

\* what one trigger leaves in the download directory
Deliveries == {NoContent} \cup Payloads

(* ------------------------------ state ---------------------------------- *)
VARIABLES
    pc,            \* position of main(); "idle" between runs
    runs,          \* runs started so far
    scanned,       \* listing rows scanned so far
    ledger,        \* the processed_files table
    table,         \* the forecast tables, by class
    tmp,           \* /tmp/*.csv and *.crdownload, oldest first
    processed,     \* main's `processed`
    new_files,     \* main's `new_files`
    idx,           \* position of the for loop in new_files
    content,       \* main's `content`
    rows,          \* main's `rows`
    \* history
    loginResult,   \* what login() did in this run
    discovered,    \* filenames scan_files returned in this run
    ledgerAtStart, \* the ledger when this run began
    tableAtStart,  \* the forecast tables when this run began
    attempted,     \* filenames the loop took up in this run
    calls,         \* strategies called for the current file, with results
    picked,        \* whether the files a polling strategy returned were stale
    clicks,        \* pointer actions of the direct-click call just made
    last,          \* how the most recent file of this run ended
    handlerRaised, \* files of this run whose failed-record insert raised
    scanDone,      \* scan_files was called in this run
    triggers,      \* scroll triggers scan_files made in this run
    quits,         \* driver.quit() calls in this run
    exit,          \* how the try block of this run was left
    replay,        \* the file whose run stopped between upsert and insert
    \* a function called on its own
    input,         \* the argument of the call
    output         \* what the call returned, or that it raised

vars == << pc, runs, scanned, ledger, table, tmp, processed, new_files, idx, content,
           rows, loginResult, discovered, ledgerAtStart,
           tableAtStart, attempted, calls, picked, clicks, last,
           handlerRaised, scanDone, triggers, quits, exit, replay, input, output >>

store == << ledger, table >>
runHistory == << loginResult, discovered, ledgerAtStart, tableAtStart,
                 attempted, handlerRaised, scanDone, triggers, quits, exit >>
fileHistory == << calls, picked, clicks >>
unit == << input, output >>
program == << pc, runs, scanned, ledger, table, tmp, processed, new_files, idx,
              content, rows, loginResult, discovered, ledgerAtStart, tableAtStart,
              attempted, calls, picked, clicks, last, handlerRaised, scanDone,
              triggers,
              quits, exit, replay >>

\* no call has been made
NoInput == [fn |-> "none"]
Pending == [res |-> "pending"]

\* upserted: the rows the stopped run upserted; rows: the table's rows of
\* that filename right after
NoReplay == [set |-> FALSE, filename |-> Core(Text("", "", "", <<>>, "")),
             upserted |-> <<>>, rows |-> <<>>]

\* the program before its first run
Idle ==
    /\ pc = "idle"
    /\ runs = 0
    /\ scanned = 0
    /\ ledger = {}
    /\ table = [c \in {"da", "rt"} |-> <<>>]
    /\ tmp = <<>>
    /\ processed = {}
    /\ new_files = <<>>
    /\ idx = 0
    /\ content = NoContent
    /\ rows = <<>>
    /\ loginResult = "none"
    /\ discovered = {}
    /\ ledgerAtStart = {}
    /\ tableAtStart = [c \in {"da", "rt"} |-> <<>>]
    /\ attempted = <<>>
    /\ calls = <<>>
    /\ picked = <<>>
    /\ clicks = <<>>
    /\ last = "none"
    /\ handlerRaised = {}
    /\ scanDone = FALSE
    /\ triggers = 0
    /\ quits = 0
    /\ exit = "none"
    /\ replay = NoReplay

Init ==
    /\ Idle
    /\ input = NoInput
    /\ output = Pending

(* ------------------------ download directory --------------------------- *)
\* stale: the file was there before the current file's acquisition began
Artifact(name, payload) == [name |-> name, payload |-> payload, stale |-> FALSE]

Aged(dir) == [i \in 1..Len(dir) |-> [dir[i] EXCEPT !.stale = TRUE]]

\* a trigger's delivery lands as the newest file of the directory
Land(dir, fn, d) == IF d = NoContent THEN dir ELSE Append(dir, Artifact(fn, d))

\* files.sort(key=getmtime, reverse=True); files[0]
Latest(dir) == dir[Len(dir)]
Unlinked(dir) == SubSeq(dir, 1, Len(dir) - 1)

Without(dir, fn) == SelectSeq(dir, LAMBDA a : a.name # fn)

\* temp_path.write_bytes(content) (line 312), then unlink (line 356) unless
\* the frame could not be read
AfterNormalize(dir, fn, c) ==
    IF TempUnlinked(c) THEN Without(dir, fn)
    ELSE Append(Without(dir, fn), Artifact(fn, c))

(* ------------------------------ main ----------------------------------- *)
Current == new_files[idx]

\* a strategy call as main sees it: it raised, returned content, or
\* returned nothing ("if not content")
Call(strategy, raised, c) ==
    [strategy |-> strategy,
     result |-> IF raised THEN "raise" ELSE IF Falsy(c) THEN "none" ELSE "content"]

\* a cascade that does not stop at the first content
CascadeNoStop(strategy, raised, c) ==
    IF raised THEN "handler"
    ELSE IF strategy = "direct_click" THEN "js"
    ELSE IF strategy = "js" THEN "fetch"
    ELSE IF ~Falsy(c) THEN "process"
    ELSE "loop"

\* lines 393-408: where main goes after a strategy call
Cascade(strategy, raised, c) ==
    IF raised THEN "handler"
    ELSE IF ~Falsy(c) THEN "process"
    ELSE IF strategy = "direct_click" THEN "js"
    ELSE IF strategy = "js" THEN "fetch"
    ELSE "loop"

\* a main that goes on to scan whatever login() did
AfterLoginIgnored(result) == "scan"

\* line 377: login() returns or raises; the outer except ends the run
AfterLogin(result) == IF result = "ok" THEN "scan" ELSE "finally"

\* a handler whose own insert is not guarded: its error reaches the outer
\* except of line 454
AfterHandlerUnguarded(insertRaised) == IF insertRaised THEN "finally" ELSE "loop"

\* lines 441-449: the handler's own insert is inside try/except: pass
AfterHandler(insertRaised) == "loop"

ResetLocals ==
    /\ processed' = {}
    /\ new_files' = <<>>
    /\ idx' = 0
    /\ content' = NoContent
    /\ rows' = <<>>

\* the history of the cascade ends with the cascade
CascadeOver ==
    /\ calls' = <<>>
    /\ picked' = <<>>
    /\ clicks' = <<>>

ResetHistory ==
    /\ loginResult' = "none"
    /\ discovered' = {}
    /\ ledgerAtStart' = {}
    /\ tableAtStart' = [c \in {"da", "rt"} |-> <<>>]
    /\ attempted' = <<>>
    /\ calls' = <<>>
    /\ picked' = <<>>
    /\ clicks' = <<>>
    /\ last' = "none"
    /\ handlerRaised' = {}
    /\ scanDone' = FALSE
    /\ triggers' = 0

\* lines 370-374: read the ledger (an error reads as the empty set), open
\* the browser; init_browser is outside the try, its error ends main
StartRun ==
    /\ pc = "idle"
    /\ runs < MaxRuns
    /\ runs' = runs + 1
    /\ \E readOk \in BOOLEAN, browserOk \in BOOLEAN :
        /\ processed' = IF readOk /\ browserOk THEN LedgerFilenames(ledger) ELSE {}
        /\ pc' = IF browserOk THEN "login" ELSE "idle"
        /\ exit' = IF browserOk THEN "none" ELSE "raised"
    /\ ledgerAtStart' = ledger
    /\ tableAtStart' = table
    /\ quits' = 0
    /\ loginResult' = "none"
    /\ discovered' = {}
    /\ attempted' = <<>>
    /\ last' = "none"
    /\ handlerRaised' = {}
    /\ scanDone' = FALSE
    /\ triggers' = 0
    /\ UNCHANGED << scanned, store, tmp, new_files, idx, content, rows,
                    fileHistory, replay, unit >>

\* lines 47-67 and 377
Login ==
    /\ pc = "login"
    /\ \E result \in {"ok", "login_page", "raise"} :
        /\ loginResult' = result
        /\ pc' = AfterLogin(result)
        /\ exit' = IF AfterLogin(result) = "finally" THEN "global_failure" ELSE exit
    /\ UNCHANGED << runs, scanned, store, tmp, processed, new_files, idx, content, rows,
                    discovered, ledgerAtStart, tableAtStart,
                    attempted, fileHistory, last, handlerRaised, scanDone, triggers, quits,
                    replay, unit >>

\* lines 77-108 and 378-384
ScanFiles ==
    /\ pc = "scan"
    /\ scanDone' = TRUE
    /\ \/ \E listing \in Listings :
            LET all_files == scan_files(listing) IN
            /\ scanned + Len(listing) <= MaxRows
            /\ scanned' = scanned + Len(listing)
            /\ triggers' = ScrollTriggers
            /\ discovered' = Names(all_files)
            /\ new_files' = NewFiles(all_files, processed)
            /\ idx' = 1
            /\ pc' = IF new_files' = <<>> THEN "finally" ELSE "loop"
            /\ exit' = IF new_files' = <<>> THEN "return" ELSE exit
       \/ \* driver.get or an execute_script raises
          /\ pc' = "finally"
          /\ exit' = "global_failure"
          /\ \E done \in 0..ScrollTriggers : triggers' = done
          /\ UNCHANGED << scanned, discovered, new_files, idx >>
    /\ UNCHANGED << runs, store, tmp, processed, content, rows,
                    loginResult, ledgerAtStart, tableAtStart, attempted,
                    fileHistory, last, handlerRaised, quits, replay, unit >>

\* line 387: the for loop takes up the next file, or ends
NextFile ==
    /\ pc = "loop"
    /\ IF idx <= Len(new_files)
       THEN /\ pc' = "direct_click"
            /\ content' = NoContent
            /\ tmp' = Aged(tmp)
            /\ attempted' = Append(attempted, Current.filename)
            /\ calls' = <<>>
            /\ picked' = <<>>
            /\ clicks' = <<>>
            /\ exit' = exit
       ELSE /\ pc' = "finally"
            /\ exit' = "return"
            /\ UNCHANGED << tmp, content, attempted, fileHistory >>
    /\ rows' = <<>>
    /\ last' = "none"
    /\ UNCHANGED << runs, scanned, store, processed, new_files, idx,
                    loginResult, discovered, ledgerAtStart, tableAtStart,
                    handlerRaised, scanDone, triggers, quits, replay, unit >>

\* the part shared by the three strategy calls of lines 396-408
Strategy(strategy, raised, c) ==
    /\ calls' = Append(calls, Call(strategy, raised, c))
    /\ content' = IF raised THEN content ELSE c
    /\ pc' = Cascade(strategy, raised, c)
    /\ idx' = IF pc' = "loop" THEN idx + 1 ELSE idx
    /\ last' = IF pc' = "loop" THEN "exhausted" ELSE last
    /\ UNCHANGED << runs, scanned, store, processed, new_files, rows,
                    loginResult, discovered, ledgerAtStart, tableAtStart,
                    attempted, handlerRaised, scanDone, triggers, quits, exit, replay,
                    unit >>

\* lines 282-287, 157-162: the newest file is read and unlinked
Collect(strategy, files) ==
    /\ tmp' = Unlinked(files)
    /\ picked' = Append(picked, Latest(files).stale)
    /\ Strategy(strategy, FALSE, Latest(files).payload)

\* no file in the directory, or the strategy's own except: None
Nothing(strategy, files) ==
    /\ tmp' = files
    /\ picked' = picked
    /\ Strategy(strategy, FALSE, NoContent)

\* a pointer action, and whether a new file landed in /tmp after it
Click(action, d) == [action |-> action, landed |-> d # NoContent]

\* an escalation that does not look at the directory
EscalateAlways(files) == TRUE

\* lines 263 and 274: "if not files"
Escalate(files) == files = <<>>

\* 3. double click (lines 274-278)
DoubleClick(sofar, files) ==
    \/ \E d3 \in Deliveries :
         LET files3 == Land(files, Current.filename, d3) IN
         /\ clicks' = Append(sofar, Click("double", d3))
         /\ IF files3 # <<>>
            THEN Collect("direct_click", files3)
            ELSE Nothing("direct_click", files3)
    \/ \* double_click raises: caught at line 289
       /\ clicks' = Append(sofar, Click("double_raised", NoContent))
       /\ Nothing("direct_click", files)

\* download_file_direct_click (lines 238-292), called at line 396
DirectClick ==
    /\ pc = "direct_click"
    /\ \/ \* save_screenshot (line 244) is outside the try
          /\ Strategy("direct_click", TRUE, NoContent)
          /\ UNCHANGED << tmp, picked, clicks >>
       \/ \* find_element raises: caught at line 289
          /\ Nothing("direct_click", tmp)
          /\ UNCHANGED clicks
       \/ \* 1. single click (lines 256-260)
          \E d1 \in Deliveries :
            LET files1 == Land(tmp, Current.filename, d1)
                single == <<Click("single", d1)>>
            IN  IF ~Escalate(files1)
                THEN /\ clicks' = single
                     /\ Collect("direct_click", files1)
                ELSE \* 2. parent click (lines 263-271)
                     \/ \E d2 \in Deliveries :
                          LET files2 == Land(files1, Current.filename, d2)
                              parent == Append(single, Click("parent", d2))
                          IN  IF ~Escalate(files2)
                              THEN /\ clicks' = parent
                                   /\ Collect("direct_click", files2)
                              ELSE DoubleClick(parent, files2)
                     \/ \* the parent click raises: swallowed at line 270
                        DoubleClick(Append(single, Click("parent_raised", NoContent)),
                                    files1)

\* download_file_js (lines 110-164), called at line 400; nothing in it is
\* caught
DownloadJs ==
    /\ pc = "js"
    /\ clicks' = <<>>
    /\ \/ /\ Strategy("js", TRUE, NoContent)
          /\ UNCHANGED << tmp, picked >>
       \/ \E d \in Deliveries :
            LET files == Land(tmp, Current.filename, d) IN
            IF files # <<>> THEN Collect("js", files) ELSE Nothing("js", files)

\* download_file_fetch (lines 166-236), called at line 404; nothing in it
\* is caught, and the directory is not read
DownloadFetch ==
    /\ pc = "fetch"
    /\ UNCHANGED << tmp, picked, clicks >>
    /\ \/ Strategy("fetch", TRUE, NoContent)
       \/ \E d \in Deliveries : Strategy("fetch", FALSE, d)

\* what the next iteration starts from
NextIteration(how) ==
    /\ pc' = "loop"
    /\ idx' = idx + 1
    /\ last' = how

\* lines 410-416 and 434-435: parse_filename, process_csv_content
Process ==
    /\ pc = "process"
    /\ LET info == parse_filename(Current.filename) IN
       IF info.res # "ok"
       THEN \* datetime() raised, or {**None}
            /\ pc' = "handler"
            /\ UNCHANGED << tmp, rows, idx, last >>
       ELSE LET file_info == [type |-> info.type, version |-> info.version,
                              forecast_timestamp |-> info.forecast_timestamp,
                              filename |-> Current.filename]
            IN  /\ rows' = process_csv_content(content, file_info)
                /\ tmp' = AfterNormalize(tmp, Current.filename, content)
                /\ IF rows' # <<>>
                   THEN /\ pc' = "upsert"
                        /\ UNCHANGED << idx, last >>
                   ELSE NextIteration("no_rows")
    /\ CascadeOver
    /\ UNCHANGED << runs, scanned, store, processed, new_files, content,
                    runHistory, replay, unit >>

\* lines 417-423
UpsertRows ==
    /\ pc = "upsert"
    /\ \/ /\ table' = [table EXCEPT ![TableOf(Current.type)] = Upsert(@, rows)]
          /\ pc' = "record"
       \/ /\ pc' = "handler"
          /\ table' = table
    /\ UNCHANGED << runs, scanned, ledger, tmp, processed, new_files, idx, content,
                    rows, runHistory, fileHistory, last, replay, unit >>

\* a main that writes the ledger with upsert: the record of the filename is
\* replaced
RecordSuccessUpsert ==
    /\ pc = "record"
    /\ \/ /\ ledger' = {rec \in ledger : rec.filename # Current.filename} \cup
                {SuccessRecord(Current.filename, Current.type, content, rows)}
          /\ NextIteration("success")
       \/ /\ pc' = "handler"
          /\ UNCHANGED << ledger, idx, last >>
    /\ UNCHANGED << runs, scanned, table, tmp, processed, new_files, content, rows,
                    runHistory, fileHistory, replay, unit >>

\* lines 425-433
RecordSuccess ==
    /\ pc = "record"
    /\ \/ /\ LedgerAccepts(ledger, Current.filename)
          /\ ledger' = ledger \cup
                {SuccessRecord(Current.filename, Current.type, content, rows)}
          /\ NextIteration("success")
       \/ /\ pc' = "handler"
          /\ UNCHANGED << ledger, idx, last >>
    /\ UNCHANGED << runs, scanned, table, tmp, processed, new_files, content, rows,
                    runHistory, fileHistory, replay, unit >>

\* lines 437-449
HandleFailure ==
    /\ pc = "handler"
    /\ \/ /\ LedgerAccepts(ledger, Current.filename)
          /\ ledger' = ledger \cup {FailedRecord(Current)}
          /\ pc' = AfterHandler(FALSE)
          /\ last' = "failed"
          /\ exit' = exit
          /\ handlerRaised' = handlerRaised
       \/ /\ ledger' = ledger
          /\ pc' = AfterHandler(TRUE)
          /\ last' = "failed_unrecorded"
          /\ exit' = IF pc' = "finally" THEN "global_failure" ELSE exit
          /\ handlerRaised' = handlerRaised \cup {Current.filename}
    /\ idx' = idx + 1
    /\ CascadeOver
    /\ UNCHANGED << runs, scanned, table, tmp, processed, new_files, content, rows,
                    loginResult, discovered, ledgerAtStart,
                    tableAtStart, attempted, scanDone, triggers, quits, replay, unit >>

\* a main that quits the browser at the end of the try block only
FinallyOnReturn ==
    /\ pc = "finally"
    /\ pc' = "idle"
    /\ quits' = IF exit = "return" THEN quits + 1 ELSE quits
    /\ ResetLocals
    /\ ResetHistory
    /\ UNCHANGED << runs, scanned, store, tmp, exit, replay, unit >>

\* lines 458-459: driver.quit(), and main returns
Finally ==
    /\ pc = "finally"
    /\ pc' = "idle"
    /\ quits' = quits + 1
    /\ ResetLocals
    /\ ResetHistory
    /\ UNCHANGED << runs, scanned, store, tmp, exit, replay, unit >>

\* the rows of a forecast table stamped with a filename
RowsFor(T, fn) == SelectSeq(T, LAMBDA r : r.filename = fn)

\* the process is stopped anywhere in a run; the store and /tmp stay
Crash ==
    /\ pc # "idle"
    /\ pc' = "idle"
    /\ exit' = "crash"
    /\ replay' = IF pc = "record"
                 THEN [set |-> TRUE, filename |-> Current.filename,
                       upserted |-> rows,
                       rows |-> RowsFor(table[TableOf(Current.type)], Current.filename)]
                 ELSE replay
    /\ ResetLocals
    /\ ResetHistory
    /\ UNCHANGED << runs, scanned, store, tmp, quits, unit >>

Next ==
    \/ StartRun
    \/ Login
    \/ ScanFiles
    \/ NextFile
    \/ DirectClick
    \/ DownloadJs
    \/ DownloadFetch
    \/ Process
    \/ UpsertRows
    \/ RecordSuccess
    \/ HandleFailure
    \/ Finally
    \/ Crash

Spec == Init /\ [][Next]_vars

\* the steps of a run that has its browser session
RunStep ==
    \/ Login
    \/ ScanFiles
    \/ NextFile
    \/ DirectClick
    \/ DownloadJs
    \/ DownloadFetch
    \/ Process
    \/ UpsertRows
    \/ RecordSuccess
    \/ HandleFailure
    \/ Finally

NextRunning == StartRun \/ RunStep

\* a process that is not stopped from outside: main is one thread, every
\* call it makes returns or raises after bounded sleeps, so a run that can
\* take a step takes it
LiveSpec == Init /\ [][NextRunning]_vars /\ WF_vars(RunStep)

(* ----------------------- functions on their own ------------------------ *)
\* a call of one function: its argument is drawn at the start, the action
\* applies the function
Applied(fn, arg) == [fn |-> fn, arg |-> arg]

\* strings around the pattern of line 295
Leads == {"", "x"}
Tags == {LocationTag, "NIPSxWVPA"}
Classes == {"da", "rt", "hr"}
\* hour 24; thirteen digits
D4 == <<2, 0, 2, 4, 0, 3, 0, 1, 2, 4, 0, 0, 0, 0>>
D5 == <<2, 0, 2, 4, 0, 3, 0, 1, 0, 0, 0, 0, 0>>
\* leading zeros: year 24
D6 == <<0, 0, 2, 4, 1, 2, 3, 1, 2, 3, 5, 9, 5, 9>>
DigitGroups == {D1, D3, D4, D5, D6, <<>>}
Trails == {"", ".bak", " 12 KB"}

Strings ==
    {Text(lead, tag, cls, digits, trail) :
        lead \in Leads, tag \in Tags, cls \in Classes,
        digits \in DigitGroups, trail \in Trails}

ParseInit ==
    /\ Idle
    /\ input \in {Applied("parse_filename", t) : t \in Strings}
    /\ output = Pending

ParseFilename ==
    /\ input.fn = "parse_filename"
    /\ output = Pending
    /\ output' = parse_filename(input.arg)
    /\ UNCHANGED << program, input >>

ParseSpec == ParseInit /\ [][ParseFilename]_vars

\* the frames process_csv_content may be given: the columns of the file
ColumnSets ==
    { {"date", "he", "mw"}, {"date", "he", "kw"}, {"date", "he", "mw", "kw"},
      {"date", "he", "mw", "kw", "node"}, {"date", "he"}, {"he", "mw"} }

\* 30 February
BadDay == <<2024, 2, 30>>

\* the cells of one line: he 25 and he 0 give an hour datetime() refuses
CsvLines ==
    {Line(date, he, mw, kw, "N1") :
        date \in {Day, BadDay},
        he \in {Num(1), Num(24), Num(25), Num(0), Str},
        mw \in {Num(45), NaN, Str},
        kw \in {Num(7), NaN, Str}}

\* frames of one line, and of two lines ending in a plain one
Frames ==
    {<<ln>> : ln \in CsvLines} \cup
    {<<ln, Line(Day, Num(2), Num(50), Num(8), "N2")>> : ln \in CsvLines}

Contents ==
    {Payload("csv", cols, lines, 60) : cols \in ColumnSets, lines \in Frames}
        \cup {Payload("garbage", {}, <<>>, 10), Payload("empty", {}, <<>>, 0)}

\* main's file_info (lines 410-414) for a listed file
FileInfo(t) ==
    [type |-> t.cls, version |-> VersionOf(t.digits),
     forecast_timestamp |-> StampOf(t.digits), filename |-> Core(t)]

FileInfos == {FileInfo(Text("", LocationTag, "da", D1, "")),
              FileInfo(Text("", LocationTag, "rt", D6, ""))}

NormalizeInit ==
    /\ Idle
    /\ input \in {Applied("process_csv_content", [content |-> c, file_info |-> fi]) :
                      c \in Contents, fi \in FileInfos}
    /\ output = Pending

\* the whole body is inside try/except: the call returns rows, or []
ProcessCsvContent ==
    /\ input.fn = "process_csv_content"
    /\ output = Pending
    /\ output' = [res |-> "rows",
                  rows |-> process_csv_content(input.arg.content, input.arg.file_info)]
    /\ UNCHANGED << program, input >>

NormalizeSpec == NormalizeInit /\ [][ProcessCsvContent]_vars

\* row texts: the pattern is searched anywhere in the row's text
ScanTexts ==
    { Text("", LocationTag, "da", D1, " 12 KB"),
      Text("x ", LocationTag, "da", D1, ""),
      Text("", LocationTag, "rt", D1, ""),
      Text("", LocationTag, "da", D5, ""),
      Text("", LocationTag, "hr", D1, ""),
      Text("", "Name", "", <<>>, "") }

ScanInit ==
    /\ Idle
    /\ input \in {Applied("scan_files", listing) :
                      listing \in SeqsUpTo(ScanTexts, MaxListing)}
    /\ output = Pending

\* lines 88-108, on a listing that was read
ScanFilesAlone ==
    /\ input.fn = "scan_files"
    /\ output = Pending
    /\ output' = [res |-> "files", files |-> scan_files(input.arg)]
    /\ UNCHANGED << program, input >>

ScanSpec == ScanInit /\ [][ScanFilesAlone]_vars

(* ------------------------------ claims --------------------------------- *)
Order == <<"direct_click", "js", "fetch">>

Range(q) == {q[i] : i \in 1..Len(q)}

Previous == new_files[idx - 1]

HasRecord(fn, status) ==
    \E rec \in ledger : rec.filename = fn /\ rec.import_status = status

\* C1: for the file in hand the strategies are called in the order direct
\* click, JS trigger, fetch; a strategy is called only after every earlier
\* one returned no content, so nothing is called after one returned content
C1_CascadeOrder ==
    /\ Len(calls) <= 3
    /\ \A i \in 1..Len(calls) : calls[i].strategy = Order[i]
    /\ \A i \in 1..Len(calls) : i < Len(calls) => calls[i].result = "none"
    /\ (calls # <<>> /\ calls[Len(calls)].result = "content") => pc = "process"

\* the third strategy was reached and returned content
C1_Witness ==
    /\ Len(calls) = 3
    /\ calls[3].result = "content"
    /\ pc = "process"

\* C2 (as claimed): once every strategy has returned nothing for a file, the
\* ledger holds a 'failed' record for it when the loop goes on
C2_ExhaustedIsLedgered ==
    (pc = "loop" /\ last = "exhausted") => HasRecord(Previous.filename, "failed")

\* C3: no per-file exception ends the batch: the try block is left by a
\* global failure only before the loop, and a run that returns has taken up
\* every file of new_files, in order
C3_FailureIsolation ==
    pc = "finally" =>
        /\ exit \in {"return", "global_failure"}
        /\ exit = "global_failure" => (attempted = <<>> /\ new_files = <<>>)
        /\ exit = "return" =>
              attempted = [i \in 1..Len(new_files) |-> new_files[i].filename]

\* the first file's failed-record insert raised and the second file was
\* still taken up before the run returned
C3_Witness ==
    /\ pc = "finally"
    /\ exit = "return"
    /\ Len(attempted) = 2
    /\ attempted[1] \in handlerRaised

\* C4 (as claimed): the files a run takes up are the discovered files that
\* had no ledger record when the run began, and a run that returns has taken
\* up all of them
C4_NewIsDiscoveredMinusLedger ==
    /\ Range(attempted) \subseteq discovered \ LedgerFilenames(ledgerAtStart)
    /\ (pc = "finally" /\ exit = "return") =>
          Range(attempted) = discovered \ LedgerFilenames(ledgerAtStart)

\* C5 (as claimed): a file whose bytes were acquired and gave zero rows has
\* a 'failed' ledger record when the loop goes on
C5_ZeroRowsIsLedgered ==
    (pc = "loop" /\ last = "no_rows") => HasRecord(Previous.filename, "failed")

\* C6: after a failed login the run is over, with no scan, no file taken up
\* and the store as it was when the run began
C6_LoginFailureAborts ==
    loginResult \in {"login_page", "raise"} =>
        /\ pc = "finally"
        /\ exit = "global_failure"
        /\ ~scanDone
        /\ attempted = <<>>
        /\ calls = <<>>
        /\ table = tableAtStart
        /\ ledger = ledgerAtStart

\* the login page was still shown, in a run that began with a file listed
\* before and a non-empty store
C6_Witness ==
    /\ loginResult = "login_page"
    /\ pc = "finally"
    /\ ledgerAtStart # {}
    /\ tableAtStart["da"] # <<>>

ReplayTable(T) == RowsFor(T[TableOf(replay.filename.cls)], replay.filename)

RecordsOf(fn) == {rec \in ledger : rec.filename = fn}

\* a run after the stopped one is ending, and the file was listed in it
\* without a ledger record
ReplayRunEnds ==
    /\ replay.set
    /\ pc = "finally"
    /\ exit = "return"
    /\ replay.filename \in discovered \ LedgerFilenames(ledgerAtStart)

\* C7 (as claimed): the later run takes the file up again, and when it ends
\* (here: with no exception handled for any file) the table holds the rows
\* of the first upsert for that filename and the ledger holds one success
\* record for it
C7_ReplayAsClaimed ==
    (ReplayRunEnds /\ handlerRaised = {} /\ RecordsOf(replay.filename) \subseteq
        {rec \in ledger : rec.import_status = "success"}) =>
        /\ replay.filename \in Range(attempted)
        /\ ReplayTable(table) = replay.rows
        /\ Cardinality({rec \in RecordsOf(replay.filename) :
                            rec.import_status = "success"}) = 1

\* the later run's attempt of the file has upserted the rows the stopped run
\* upserted, into a table that still held that run's rows, and its ledger
\* insert succeeded
ReplaySucceeded ==
    /\ replay.set
    /\ pc = "loop"
    /\ last = "success"
    /\ Previous.filename = replay.filename
    /\ rows = replay.upserted
    /\ ReplayTable(tableAtStart) = replay.rows

\* C7 (amended): the later run takes the file up again; when its attempt
\* upserts the same rows and its ledger insert succeeds, the table holds the
\* rows of the first upsert for that filename, each once, and the ledger
\* holds exactly one record for it, a success record
C7_Replay ==
    /\ ReplayRunEnds => replay.filename \in Range(attempted)
    /\ ReplaySucceeded =>
          /\ ReplayTable(table) = replay.rows
          /\ RecordsOf(replay.filename) =
                {SuccessRecord(replay.filename, replay.filename.cls, content, rows)}

C7_Witness == ReplaySucceeded /\ Len(replay.rows) >= 2

CurrentTable(T) == T[TableOf(Current.type)]

\* C8: after the upsert of line 420, upserting the same rows again leaves
\* the table as it is; and when the table already held these rows for the
\* filename, the upsert itself left them as they were
C8_UpsertIdempotent ==
    pc = "record" =>
        /\ Upsert(CurrentTable(table), rows) = CurrentTable(table)
        /\ RowsFor(CurrentTable(tableAtStart), Current.filename) = Upsert(<<>>, rows)
              => /\ RowsFor(CurrentTable(table), Current.filename) = Upsert(<<>>, rows)
                 /\ Len(CurrentTable(table)) = Len(CurrentTable(tableAtStart))

\* the same rows have been upserted a second time
C8_Witness ==
    /\ pc = "record"
    /\ Len(rows) >= 2
    /\ RowsFor(CurrentTable(tableAtStart), Current.filename) = Upsert(<<>>, rows)

\* C9 (as claimed): a polling strategy never returns a file that was in the
\* download directory before the current file's acquisition began
C9_NoStaleArtifact == \A i \in 1..Len(picked) : ~picked[i]

\* C10 (as claimed): no strategy raises into main, and the cascade leaves a
\* file without content only after the third strategy was called
C10_StrategiesTotal ==
    /\ \A i \in 1..Len(calls) : calls[i].result # "raise"
    /\ (calls # <<>> /\ pc \notin {"js", "fetch"}) =>
          \/ calls[Len(calls)].result = "content"
          \/ Len(calls) = 3

\* C11 (as claimed): when every strategy has returned nothing for a file,
\* the ledger holds no success record for that filename as the loop goes on
\* (and so at the end of the run: a run takes a filename up once), and the
\* forecast table's rows of that filename are those of the run's start
C11_ExhaustedLeavesNoSuccess ==
    (pc = "loop" /\ last = "exhausted") =>
        /\ ~HasRecord(Previous.filename, "success")
        /\ RowsFor(table[TableOf(Previous.type)], Previous.filename) =
              RowsFor(tableAtStart[TableOf(Previous.type)], Previous.filename)

OneRecordPerFilename ==
    \A r1 \in ledger, r2 \in ledger : r1.filename = r2.filename => r1 = r2

\* a step that writes the ledger adds one record, of the file in hand, takes
\* no record away, and is the last step of that file's attempt
InsertOnly ==
    ledger' # ledger =>
        /\ ledger \subseteq ledger'
        /\ \E rec \in ledger' \ ledger :
              /\ ledger' = ledger \cup {rec}
              /\ rec.filename = Current.filename
        /\ pc' = "loop"

\* C12: the ledger holds at most one record per filename; an attempt of a
\* file creates at most one record; a record once written stays in the
\* ledger as written
C12_LedgerInsertOnly == []OneRecordPerFilename /\ [][InsertOnly]_vars

\* a file that had a ledger record was taken up again, and its attempt left
\* the ledger as it was
C12_Witness ==
    /\ pc = "loop"
    /\ last = "failed_unrecorded"
    /\ Previous.filename \in LedgerFilenames(ledgerAtStart)
    /\ ledger = ledgerAtStart

\* C13 (as claimed): when a run that got past login and discovery ends, it
\* ends by returning, and every file it took up has exactly one ledger
\* record: 'success' with the count of its rows, or 'failed' with count 0
C13_LedgerComplete ==
    (pc = "finally" /\ scanDone /\ discovered # {}) =>
        /\ exit = "return"
        /\ \A fn \in Range(attempted) :
              /\ Cardinality(RecordsOf(fn)) = 1
              /\ \A rec \in RecordsOf(fn) :
                    \/ rec.import_status = "success" /\ rec.row_count > 0
                    \/ rec.import_status = "failed" /\ rec.row_count = 0

\* the whole string is <location-tag>_<da|rt>_price_forecast_<14 digits>.csv
\* and the digits are a calendar date-time
Conforming(t) ==
    /\ t.lead = ""
    /\ t.trail = ""
    /\ PatternCore(t)
    /\ LET s == StampOf(t.digits) IN ValidDateTime(s[1], s[2], s[3], s[4], s[5], s[6])

\* the decimal digits of n, in a field of the given width
RECURSIVE Decimal(_, _)
Decimal(n, width) ==
    IF width = 0 THEN <<>> ELSE Append(Decimal(n \div 10, width - 1), n % 10)

\* C14 (as claimed): parse_filename returns for every string; it returns
\* none for every string that does not conform; for a conforming string the
\* version is the integer of the 14 digits and forecast_timestamp is the
\* digits read as YYYY MM DD HH MM SS
C14_ParseTotal ==
    output # Pending =>
        /\ output.res # "raise"
        /\ ~Conforming(input.arg) => output = NoIdentity
        /\ Conforming(input.arg) =>
              /\ output.res = "ok"
              /\ Decimal(output.version[1], 8) \o Decimal(output.version[2], 6)
                    = input.arg.digits
              /\ output.forecast_timestamp = StampOf(input.arg.digits)

\* the row's own parse throws: its date or its hour cannot be read
ParseThrows(cols, ln) ==
    \/ "date" \notin cols
    \/ "he" \notin cols
    \/ ln.he.t # "num"
    \/ Len(ln.date) < 3
    \/ ~ValidDateTime(ln.date[1], ln.date[2], ln.date[3], ln.he.v - 1, 0, 0)

\* the lines the claim keeps
RECURSIVE KeptAsClaimed(_, _)
KeptAsClaimed(cols, lines) ==
    IF lines = <<>> THEN <<>>
    ELSE IF ParseThrows(cols, Head(lines)) THEN KeptAsClaimed(cols, Tail(lines))
         ELSE <<Head(lines)>> \o KeptAsClaimed(cols, Tail(lines))

\* no value column of the line holds a number
NoNumericValue(cols, ln) ==
    /\ "mw" \in cols => ln.mw.t # "num"
    /\ "kw" \in cols => ln.kw.t # "num"

\* C15 (as claimed): process_csv_content returns; its rows are those of the
\* lines whose date and hour can be read, in order, a line without a
\* numeric value giving a row with a null price; every row carries the
\* file's version, forecast_timestamp and filename
C15_NormalizerAsymmetry ==
    output # Pending =>
        LET c == input.arg.content
            fi == input.arg.file_info
            kept == IF c.kind = "csv" THEN KeptAsClaimed(c.cols, c.lines) ELSE <<>>
        IN  /\ output.res = "rows"
            /\ Len(output.rows) = Len(kept)
            /\ \A i \in 1..Len(output.rows) :
                  /\ output.rows[i].version = fi.version
                  /\ output.rows[i].forecast_timestamp = fi.forecast_timestamp
                  /\ output.rows[i].filename = fi.filename
                  /\ NoNumericValue(c.cols, kept[i]) => output.rows[i].price = Null

\* the lines of a frame that give a row
Produced(c) ==
    IF c.kind = "csv" THEN SelectSeq(c.lines, LAMBDA ln : ~RowRaises(c.cols, ln))
    ELSE <<>>

Present(cols, col, cell) == col \in cols /\ cell.t = "num"

\* C16: a row made from a line with a valid date and he in 1..24 has
\* hour = he and target_timestamp = that date at hour he - 1; its price is
\* mw when mw is present, kw when only kw is present, else null; its
\* location is the node column when the file has one, else the default tag
C16_StructuredSchema ==
    output # Pending =>
        LET c == input.arg.content
            made == Produced(c)
        IN  /\ Len(output.rows) = Len(made)
            /\ \A i \in 1..Len(output.rows) :
                  LET r == output.rows[i]
                      ln == made[i]
                  IN  /\ ln.he.v \in 1..24
                      /\ r.hour = ln.he.v
                      /\ r.target_timestamp =
                            <<ln.date[1], ln.date[2], ln.date[3], ln.he.v - 1>>
                      /\ Present(c.cols, "mw", ln.mw) => r.price = ln.mw
                      /\ (~Present(c.cols, "mw", ln.mw) /\ Present(c.cols, "kw", ln.kw))
                            => r.price = ln.kw
                      /\ (~Present(c.cols, "mw", ln.mw) /\ ~Present(c.cols, "kw", ln.kw))
                            => r.price = Null
                      /\ r.location = IF "node" \in c.cols THEN ln.node ELSE LocationTag

\* a file with mw, kw and node columns gave a row for hour ending 24 with
\* both values present, followed by a second row
C16_Witness ==
    /\ output # Pending
    /\ "node" \in input.arg.content.cols
    /\ Len(output.rows) = 2
    /\ output.rows[1].hour = 24
    /\ output.rows[1].target_timestamp = <<2024, 3, 1, 23>>
    /\ output.rows[1].price = Num(45)
    /\ input.arg.content.lines[1].kw = Num(7)
    /\ output.rows[1].location = "N1"

\* the rows of a listing whose text holds a filename
MatchingRows(listing) == {i \in 1..Len(listing) : PatternCore(listing[i])}

\* the first row of the listing that shows the filename
FirstRow(listing, fn) ==
    CHOOSE i \in MatchingRows(listing) :
        /\ Core(listing[i]) = fn
        /\ \A j \in MatchingRows(listing) : Core(listing[j]) = fn => i <= j

\* C17: scan_files returns every filename shown by a matching row, each
\* once, in the order of their first rows; a row whose text does not hold
\* the pattern gives no candidate
C17_DiscoveryUnique ==
    output # Pending =>
        LET listing == input.arg
            files == output.files
        IN  /\ \A i \in 1..Len(files), j \in 1..Len(files) :
                  files[i].filename = files[j].filename => i = j
            /\ Names(files) = {Core(listing[i]) : i \in MatchingRows(listing)}
            /\ \A i \in 1..Len(files), j \in 1..Len(files) :
                  i < j => FirstRow(listing, files[i].filename)
                              < FirstRow(listing, files[j].filename)
            /\ \A i \in 1..Len(files) :
                  LET t == listing[FirstRow(listing, files[i].filename)] IN
                  files[i] = [filename |-> Core(t), type |-> t.cls, version |-> t.digits]

\* a filename shown by the first and the third row, another file and a row
\* without a filename: two candidates, the repeated one first
C17_Witness ==
    /\ output # Pending
    /\ input.fn = "scan_files"
    /\ Len(input.arg) = 3
    /\ input.arg[1] # input.arg[3]
    /\ PatternCore(input.arg[1])
    /\ Core(input.arg[1]) = Core(input.arg[3])
    /\ PatternCore(input.arg[2])
    /\ Len(output.files) = 2
    /\ output.files[1].filename = Core(input.arg[1])

\* C18: the pointer actions of the direct-click strategy are single click,
\* parent click, double click, in that order; an action is made only when
\* no new file landed after any earlier one; when the parent click raises
\* the double click is still made
C18_ClickEscalation ==
    /\ Len(clicks) <= 3
    /\ Len(clicks) >= 1 => clicks[1].action = "single"
    /\ Len(clicks) >= 2 => clicks[2].action \in {"parent", "parent_raised"}
    /\ Len(clicks) >= 3 => clicks[3].action \in {"double", "double_raised"}
    /\ \A i \in 1..Len(clicks) : i < Len(clicks) => ~clicks[i].landed
    /\ (Len(clicks) >= 2 /\ clicks[2].action = "parent_raised") => Len(clicks) = 3

\* the parent click raised and the double click brought the file
C18_Witness ==
    /\ Len(clicks) = 3
    /\ clicks[2].action = "parent_raised"
    /\ clicks[3] = [action |-> "double", landed |-> TRUE]
    /\ pc = "process"

\* C19 (as claimed): the forecast table holds no row stamped with a
\* filename whose ledger record is 'failed', and it holds the rows of every
\* filename whose ledger record is 'success'
C19_LedgerAgreesWithTable ==
    \A rec \in ledger :
        LET stamped == RowsFor(table[TableOf(rec.file_type)], rec.filename) IN
        /\ rec.import_status = "failed" => (rec.row_count = 0 /\ stamped = <<>>)
        /\ rec.import_status = "success" => Len(stamped) = rec.row_count

\* the session is open from init_browser to driver.quit()
QuitOnce ==
    /\ quits <= 1
    /\ pc \notin {"idle"} => quits = 0
    /\ (pc = "idle" /\ exit \in {"return", "global_failure"}) => quits = 1
    /\ (pc = "idle" /\ exit \in {"none", "raised"}) => quits = 0

\* scan_files makes ScrollTriggers triggers, fewer only when it raised
BoundedTriggers ==
    /\ triggers \in 0..ScrollTriggers
    /\ (scanDone /\ exit # "global_failure") => triggers = ScrollTriggers

\* C20: a run that has its browser session ends, with driver.quit() called
\* exactly once, however the try block is left; scan_files makes a fixed
\* number of scroll triggers
C20_RunEndsWithOneQuit ==
    /\ [](QuitOnce /\ BoundedTriggers)
    /\ (pc # "idle") ~> (pc = "idle" /\ quits = 1)

\* a second run, begun with a file on record, left its try block by the
\* outer except and has ended with one quit
C20_Witness ==
    /\ pc = "idle"
    /\ quits = 1
    /\ exit = "global_failure"
    /\ runs = 2
    /\ ledger # {}

====
